---------------------------- MODULE Spec2Model ----------------------------
(***************************************************************************)
(* Page-cache core of bustub: the LRU-K replacer and the buffer pool       *)
(* manager instance (two variants of buffer_pool_manager_instance.cpp).    *)
(*                                                                         *)
(*   SpecLRU      the replacer driven directly (lru_k_replacer.cpp)        *)
(*   Spec         the buffer pool manager of                               *)
(*                src/buffer/buffer_pool_manager_instance.cpp              *)
(*   SpecPart000  the buffer pool manager of unnamed/part_000              *)
(*   SpecHT       the extendible hash table, one call at a time            *)
(*                (src/container/hash/extendible_hash_table.cpp)           *)
(*   SpecHTC      the same table called by concurrent threads              *)
(*                                                                         *)
(* The pool latch serialises every public call, so each call is one step.  *)
(***************************************************************************)
EXTENDS Integers, Sequences, FiniteSets, TLC

VARIABLES
    pages,          \* pages_[frame]: page_id_, pin_count_, is_dirty_, data_
    free_list,      \* free_list_: sequence of frame ids
    page_table,     \* page_table_: page id -> frame id, or -1 (evicted sentinel)
    replacer,       \* replacer_: the LRUKReplacer object
    next_page_id,   \* next_page_id_
    disk,           \* disk manager contents: page id -> bytes
    crashed,        \* the process was aborted (assertion, null dereference)
    last,           \* the call just made and what it returned
    expected,       \* observer: page id -> the bytes last written and reported dirty
    table,          \* the ExtendibleHashTable object: dir_, buckets, depths, counters
    kv,             \* observer: the map the table stands for (key -> value)
    hcall,          \* the hash table call just completed and what it returned
    threads,        \* per thread: the call in progress, its position and locals
    latch           \* owner of latch_ and of every bucket's latch_ (0: free)

htvars == <<table, kv, hcall, threads, latch>>

vars == <<pages, free_list, page_table, replacer, next_page_id, disk,
          crashed, last, expected, htvars>>

\* -------------------------------------------------------------- bounds
NumFrames == 2      \* num_frames of the replacer driven directly
MaxK == 2           \* largest k of the replacer driven directly
MaxTime == 4        \* cap on current_timestamp_ of the replacer driven directly
PoolSize == 2       \* largest pool_size of the buffer pool manager
ReplacerK == 2      \* replacer_k of the buffer pool manager
MaxClock == 3       \* cap on current_timestamp_ under the buffer pool manager
MaxPages == 3       \* cap on next_page_id_
MaxPin == 2         \* cap on pin_count_

INVALID_PAGE_ID == -1
NullFrame == -1

\* the frame ids of the pool: [0, pool_size_)
Frames == DOMAIN pages
PageIds == 0 .. (MaxPages - 1)
\* page payloads: the zeroed page and one other content
Bytes == {0, 1}

\* ------------------------------------------------------------ helpers
Min(S) == CHOOSE x \in S : \A y \in S : x <= y

RemoveKey(m, k) == [x \in (DOMAIN m) \ {k} |-> m[x]]

Put(m, k, v) == [x \in (DOMAIN m) \cup {k} |-> IF x = k THEN v ELSE m[x]]

SeqWithout(s, x) == SelectSeq(s, LAMBDA y : y # x)

\* =====================================================================
\* LRUNode (declared in lru_k_replacer.h)
\* =====================================================================
\* all: observer field, every access time since the node was created
NewLRUNode == [hist |-> <<>>, evictable |-> FALSE, all |-> <<>>]

\* ring buffer of the k most recent access times, oldest first
Access(node, k, t) ==
    [node EXCEPT !.hist = IF Len(@) < k THEN Append(@, t) ELSE Append(Tail(@), t),
                 !.all = Append(@, t)]

AccessCount(node) == Len(node.hist)

AccessTime(node) == node.hist[1]

\* =====================================================================
\* LRUKReplacer
\* =====================================================================
NewReplacer(num_frames, k) ==
    [lru_access_map |-> <<>>,
     k_evi_list |-> <<>>,
     kless_evi_list |-> <<>>,
     curr_size |-> 0,
     current_timestamp |-> 0,
     replacer_size |-> num_frames,
     k |-> k]

Known(r, f) == f \in DOMAIN r.lru_access_map

Evitable(r, f) == Known(r, f) /\ r.lru_access_map[f].evictable

UnLinkNode(r, f) ==
    [r EXCEPT !.k_evi_list = SeqWithout(@, f),
              !.kless_evi_list = SeqWithout(@, f)]

\* a walk that never compares access times: always links at the tail
InsertPosUnsorted(list, map, f) == Len(list) + 1

\* walk from the sentinel; link before the first node with a later AccessTime
InsertPos(list, map, f) ==
    LET later == {i \in 1 .. Len(list) :
                     AccessTime(map[f]) < AccessTime(map[list[i]])}
    IN  IF later = {} THEN Len(list) + 1 ELSE Min(later)

InsertNodeToList(list, map, f) ==
    LET p == InsertPos(list, map, f)
    IN  SubSeq(list, 1, p - 1) \o <<f>> \o SubSeq(list, p, Len(list))

AddNodeToList(r, f) ==
    IF AccessCount(r.lru_access_map[f]) >= r.k
    THEN [r EXCEPT !.k_evi_list = InsertNodeToList(@, r.lru_access_map, f)]
    ELSE [r EXCEPT !.kless_evi_list = InsertNodeToList(@, r.lru_access_map, f)]

GetKlessEviNode(r) ==
    IF r.kless_evi_list = <<>> THEN NullFrame ELSE Head(r.kless_evi_list)

GetKEvitNode(r) ==
    IF r.k_evi_list = <<>> THEN NullFrame ELSE Head(r.k_evi_list)

\* the node EviNode picks (NullFrame: nullptr)
EviNodeChoice(r) ==
    IF GetKlessEviNode(r) # NullFrame THEN GetKlessEviNode(r) ELSE GetKEvitNode(r)

\* an eviction that unlinks the victim but keeps its node and history
EviNodeKeepHistory(r) ==
    LET f == EviNodeChoice(r)
    IN  IF f = NullFrame THEN r
        ELSE [UnLinkNode(r, f) EXCEPT !.lru_access_map[f].evictable = FALSE,
                                      !.curr_size = @ - 1]

EviNode(r) ==
    LET f == EviNodeChoice(r)
    IN  IF f = NullFrame THEN r
        ELSE [UnLinkNode(r, f) EXCEPT !.lru_access_map = RemoveKey(@, f),
                                      !.curr_size = @ - 1]

\* Evict: [ok, frame, r]; nullderef when curr_size_ > 0 and no node is linked
EvictRes(r) ==
    IF r.curr_size > 0
    THEN [ok |-> TRUE, frame |-> EviNodeChoice(r), r |-> EviNode(r),
          nullderef |-> EviNodeChoice(r) = NullFrame]
    ELSE [ok |-> FALSE, frame |-> NullFrame, r |-> r, nullderef |-> FALSE]

\* BUSTUB_ASSERT((size_t)frame_id <= replacer_size_, ...)
RecordAccessAssert(r, f) == f >= 0 /\ f <= r.replacer_size

\* a RecordAccess that never relinks the node it touched
RecordAccessResNoRelink(r, f) ==
    LET t == r.current_timestamp
        node0 == IF Known(r, f) THEN r.lru_access_map[f] ELSE NewLRUNode
    IN  [r EXCEPT !.current_timestamp = t + 1,
                  !.lru_access_map = Put(@, f, Access(node0, r.k, t))]

RecordAccessRes(r, f) ==
    LET t == r.current_timestamp
        node0 == IF Known(r, f) THEN r.lru_access_map[f] ELSE NewLRUNode
        node == Access(node0, r.k, t)
        r1 == [r EXCEPT !.current_timestamp = t + 1,
                        !.lru_access_map = Put(@, f, node)]
    IN  IF node.evictable /\ AccessCount(node) >= r.k
        THEN LET r2 == UnLinkNode(r1, f)
             IN  [r2 EXCEPT !.k_evi_list = InsertNodeToList(@, r2.lru_access_map, f)]
        ELSE r1

\* a SetEvictable that counts every call with set_evictable, transition or not
SetEvictableResCountCalls(r, f, set_evictable) ==
    IF ~Known(r, f) THEN r
    ELSE LET last_evi_state == r.lru_access_map[f].evictable
             r1 == [r EXCEPT !.lru_access_map[f].evictable = set_evictable]
         IN  IF ~set_evictable
             THEN [UnLinkNode(r1, f) EXCEPT !.curr_size = IF last_evi_state THEN @ - 1 ELSE @]
             ELSE [AddNodeToList(UnLinkNode(r1, f), f) EXCEPT !.curr_size = @ + 1]

SetEvictableRes(r, f, set_evictable) ==
    IF ~Known(r, f) THEN r
    ELSE LET last_evi_state == r.lru_access_map[f].evictable
             r1 == [r EXCEPT !.lru_access_map[f].evictable = set_evictable]
         IN  IF last_evi_state /\ ~set_evictable
             THEN [UnLinkNode(r1, f) EXCEPT !.curr_size = @ - 1]
             ELSE IF ~last_evi_state /\ set_evictable
             THEN [AddNodeToList(UnLinkNode(r1, f), f) EXCEPT !.curr_size = @ + 1]
             ELSE r1

\* BUSTUB_ASSERT(node->Evitable(), ...) for a known frame
RemoveAssert(r, f) == Known(r, f) => r.lru_access_map[f].evictable

\* a Remove that unlinks the node but leaves it in lru_access_map_
RemoveResKeepNode(r, f) ==
    IF ~Known(r, f) THEN r
    ELSE [UnLinkNode(r, f) EXCEPT
             !.curr_size = IF r.lru_access_map[f].evictable THEN @ - 1 ELSE @,
             !.lru_access_map[f].evictable = FALSE]

RemoveRes(r, f) ==
    IF ~Known(r, f) THEN r
    ELSE [UnLinkNode(r, f) EXCEPT
             !.curr_size = IF r.lru_access_map[f].evictable THEN @ - 1 ELSE @,
             !.lru_access_map = RemoveKey(@, f)]

Size(r) == r.curr_size

\* last: op, the page id passed or returned, the frame returned (NullFrame: none),
\* the boolean returned, the boolean passed, whether memory outside the frame
\* array was touched, and where a replacement frame came from
NoCall == [op |-> "none", page_id |-> INVALID_PAGE_ID, frame |-> NullFrame,
           ok |-> FALSE, flag |-> FALSE, oob |-> FALSE, how |-> "none"]

\* =====================================================================
\* The replacer driven directly
\* =====================================================================
InitPool(pool_size) ==
    /\ pages = [f \in 0 .. (pool_size - 1) |->
                   [page_id |-> INVALID_PAGE_ID, pin_count |-> 0,
                    is_dirty |-> FALSE, data |-> 0]]
    /\ free_list = [i \in 1 .. pool_size |-> i - 1]
    /\ page_table = <<>>
    /\ next_page_id = 0
    /\ disk = [p \in PageIds |-> 0]
    /\ crashed = FALSE
    /\ last = NoCall
    /\ expected = <<>>

\* no hash table is driven directly while the replacer or the pool is
HtIdle ==
    /\ table = <<>>
    /\ kv = <<>>
    /\ hcall = <<>>
    /\ threads = <<>>
    /\ latch = <<>>

InitLRU ==
    /\ InitPool(NumFrames)
    /\ HtIdle
    /\ \E k \in 1 .. MaxK : replacer = NewReplacer(NumFrames, k)

BpmUnchanged == UNCHANGED <<pages, free_list, page_table, next_page_id, disk, expected>>

RecordAccess(f) ==
    /\ ~crashed
    /\ UNCHANGED htvars
    /\ replacer.current_timestamp < MaxTime
    /\ IF RecordAccessAssert(replacer, f)
       THEN /\ replacer' = RecordAccessRes(replacer, f)
            /\ crashed' = FALSE
            /\ last' = [NoCall EXCEPT !.op = "RecordAccess", !.frame = f, !.ok = TRUE]
       ELSE /\ crashed' = TRUE
            /\ last' = [NoCall EXCEPT !.op = "RecordAccess", !.frame = f]
            /\ UNCHANGED replacer
    /\ BpmUnchanged

SetEvictable(f, b) ==
    /\ ~crashed
    /\ UNCHANGED htvars
    /\ replacer' = SetEvictableRes(replacer, f, b)
    /\ last' = [NoCall EXCEPT !.op = "SetEvictable", !.frame = f, !.flag = b, !.ok = TRUE]
    /\ UNCHANGED crashed
    /\ BpmUnchanged

Remove(f) ==
    /\ ~crashed
    /\ UNCHANGED htvars
    /\ IF RemoveAssert(replacer, f)
       THEN /\ replacer' = RemoveRes(replacer, f)
            /\ crashed' = FALSE
            /\ last' = [NoCall EXCEPT !.op = "Remove", !.frame = f, !.ok = TRUE,
                                      !.how = IF Known(replacer, f) THEN "erased"
                                              ELSE "none"]
       ELSE /\ crashed' = TRUE
            /\ last' = [NoCall EXCEPT !.op = "Remove", !.frame = f]
            /\ UNCHANGED replacer
    /\ BpmUnchanged

Evict ==
    /\ ~crashed
    /\ UNCHANGED htvars
    /\ LET e == EvictRes(replacer)
       IN  IF e.nullderef
           THEN /\ crashed' = TRUE
                /\ last' = [NoCall EXCEPT !.op = "Evict"]
                /\ UNCHANGED replacer
           ELSE /\ replacer' = e.r
                /\ crashed' = FALSE
                /\ last' = [NoCall EXCEPT !.op = "Evict", !.frame = e.frame, !.ok = e.ok]
    /\ BpmUnchanged

\* frame ids a caller may pass: the valid ones, num_frames itself and one beyond
LRUArgs == 0 .. (NumFrames + 1)

NextLRU ==
    \/ \E f \in LRUArgs : RecordAccess(f)
    \/ \E f \in LRUArgs, b \in BOOLEAN : SetEvictable(f, b)
    \/ \E f \in LRUArgs : Remove(f)
    \/ Evict

SpecLRU == InitLRU /\ [][NextLRU]_vars

\* =====================================================================
\* BufferPoolManagerInstance: what both variants share
\* =====================================================================
\* the manager's state as one value
Bpm == [pages |-> pages, free_list |-> free_list, page_table |-> page_table,
        replacer |-> replacer, next_page_id |-> next_page_id, disk |-> disk]

Apply(s) ==
    /\ pages' = s.pages
    /\ free_list' = s.free_list
    /\ page_table' = s.page_table
    /\ replacer' = s.replacer
    /\ next_page_id' = s.next_page_id
    /\ disk' = s.disk

BpmState == <<pages, free_list, page_table, replacer, next_page_id, disk>>

\* Page::Reset / ResetPage: zero payload, no page, no pin, clean
ResetPage == [page_id |-> INVALID_PAGE_ID, pin_count |-> 0, is_dirty |-> FALSE,
              data |-> 0]

\* the disk manager (an external collaborator)
WritePage(d, page_id, data) ==
    IF page_id \in DOMAIN d THEN [d EXCEPT ![page_id] = data] ELSE d

ReadPage(d, page_id) == IF page_id \in DOMAIN d THEN d[page_id] ELSE 0

\* [ok, frame, how, s]: the free list's front, else the replacer's victim
GetReplacementFrame(s) ==
    IF s.free_list # <<>>
    THEN [ok |-> TRUE, frame |-> Head(s.free_list), how |-> "free",
          s |-> [s EXCEPT !.free_list = Tail(@)]]
    ELSE LET e == EvictRes(s.replacer)
         IN  IF e.ok
             THEN [ok |-> TRUE, frame |-> e.frame, how |-> "evict",
                   s |-> [s EXCEPT !.replacer = e.r]]
             ELSE [ok |-> FALSE, frame |-> NullFrame, how |-> "none", s |-> s]

\* write the old page back if dirty, leave the -1 sentinel for it, reset the frame
FlushOldPage(s, frame_id) ==
    LET page == s.pages[frame_id]
    IN  [s EXCEPT
           !.disk = IF page.is_dirty THEN WritePage(@, page.page_id, page.data) ELSE @,
           !.page_table = IF page.page_id # INVALID_PAGE_ID
                          THEN Put(@, page.page_id, NullFrame) ELSE @,
           !.pages[frame_id] = ResetPage]

AllocPageHelper(s, frame_id) ==
    LET page_id == s.next_page_id
        s1 == FlushOldPage([s EXCEPT !.next_page_id = @ + 1], frame_id)
    IN  [s1 EXCEPT
           !.pages[frame_id] = [ResetPage EXCEPT !.page_id = page_id, !.pin_count = 1],
           !.replacer = SetEvictableRes(RecordAccessRes(@, frame_id), frame_id, FALSE),
           !.page_table = Put(@, page_id, frame_id)]

\* AllocatePage called before a frame is found: a failed call consumes a page id
NewPgImpResEarlyAlloc(s) ==
    LET g == GetReplacementFrame(s)
    IN  IF g.ok
        THEN [frame |-> g.frame, how |-> g.how, s |-> AllocPageHelper(g.s, g.frame)]
        ELSE [frame |-> NullFrame, how |-> "none",
              s |-> [s EXCEPT !.next_page_id = @ + 1]]

\* [frame, how, s]: frame = NullFrame when nullptr is returned
NewPgImpRes(s) ==
    LET g == GetReplacementFrame(s)
    IN  IF g.ok
        THEN [frame |-> g.frame, how |-> g.how, s |-> AllocPageHelper(g.s, g.frame)]
        ELSE [frame |-> NullFrame, how |-> "none", s |-> s]

\* the miss branch of FetchPgImp: rebind a replacement frame to page_id
FetchMiss(s, page_id) ==
    LET g == GetReplacementFrame(s)
    IN  IF g.ok
        THEN LET s1 == FlushOldPage(g.s, g.frame)
             IN  [frame |-> g.frame, how |-> g.how,
                  s |-> [s1 EXCEPT
                           !.pages[g.frame] =
                               [ResetPage EXCEPT !.data = ReadPage(s1.disk, page_id),
                                                 !.page_id = page_id,
                                                 !.pin_count = 1],
                           !.page_table = Put(@, page_id, g.frame),
                           !.replacer = SetEvictableRes(RecordAccessRes(@, g.frame),
                                                        g.frame, FALSE)]]
        ELSE [frame |-> NullFrame, how |-> "none", s |-> s]

\* FlushPgImpLockFree with a frame id inside the pool
FlushFrame(s, page_id, frame_id) ==
    [s EXCEPT !.disk = WritePage(@, page_id, s.pages[frame_id].data),
              !.pages[frame_id].is_dirty = FALSE]

RECURSIVE FlushAllFrom(_, _)
FlushAllFrom(s, i) ==
    IF i \notin DOMAIN s.pages THEN s
    ELSE LET page == s.pages[i]
         IN  FlushAllFrom(IF page.page_id # INVALID_PAGE_ID
                          THEN [s EXCEPT !.disk = WritePage(@, page.page_id, page.data),
                                         !.pages[i].is_dirty = FALSE]
                          ELSE s, i + 1)

\* does the call record an access (and so advance the replacer's clock)?
ClockLeft == replacer.current_timestamp < MaxClock

Call(op, page_id, frame, ok, flag, oob, how) ==
    [op |-> op, page_id |-> page_id, frame |-> frame, ok |-> ok, flag |-> flag,
     oob |-> oob, how |-> how]

\* ------------------------------------------------------------- actions
Init ==
    \E pool_size \in 1 .. PoolSize :
        /\ InitPool(pool_size)
        /\ replacer = NewReplacer(pool_size, ReplacerK)
        /\ HtIdle

NewPgImp ==
    /\ ~crashed
    /\ UNCHANGED htvars
    /\ LET res == NewPgImpRes(Bpm)
       IN  /\ res.frame # NullFrame => (ClockLeft /\ next_page_id < MaxPages)
           /\ Apply(res.s)
           /\ last' = Call("NewPage",
                           IF res.frame # NullFrame THEN next_page_id ELSE INVALID_PAGE_ID,
                           res.frame, res.frame # NullFrame, FALSE, FALSE, res.how)
           /\ UNCHANGED expected
    /\ UNCHANGED crashed

\* pages_[-1]: the read is outside the frame array; the process is killed, or the
\* bytes found there are written to disk under page_id and true is returned
FlushOutOfBounds(page_id) ==
    \/ /\ crashed' = TRUE
       /\ last' = Call("FlushPage", page_id, NullFrame, FALSE, FALSE, TRUE, "none")
       /\ UNCHANGED <<BpmState, expected>>
    \/ \E garbage \in Bytes :
          /\ Apply([Bpm EXCEPT !.disk = WritePage(@, page_id, garbage)])
          /\ last' = Call("FlushPage", page_id, NullFrame, TRUE, FALSE, TRUE, "none")
          /\ UNCHANGED <<crashed, expected>>

FlushPgImp(page_id) ==
    /\ ~crashed
    /\ UNCHANGED htvars
    /\ IF page_id \in DOMAIN page_table
       THEN IF page_table[page_id] = NullFrame
            THEN FlushOutOfBounds(page_id)
            ELSE /\ Apply(FlushFrame(Bpm, page_id, page_table[page_id]))
                 /\ last' = Call("FlushPage", page_id, page_table[page_id], TRUE,
                                 FALSE, FALSE, "none")
                 /\ UNCHANGED <<crashed, expected>>
       ELSE /\ last' = Call("FlushPage", page_id, NullFrame, FALSE, FALSE, FALSE, "none")
            /\ UNCHANGED <<BpmState, crashed, expected>>

FlushAllPgsImp ==
    /\ ~crashed
    /\ UNCHANGED htvars
    /\ Apply(FlushAllFrom(Bpm, 0))
    /\ last' = Call("FlushAllPages", INVALID_PAGE_ID, NullFrame, TRUE, FALSE, FALSE, "none")
    /\ UNCHANGED <<crashed, expected>>

\* pages_[-1] in UnpinPgImp: the pin count read there is arbitrary; the process is
\* killed, or false is returned, or the fields outside the array are written and
\* true is returned (SetEvictable(-1, true) finds no node)
UnpinOutOfBounds(page_id, is_dirty) ==
    /\ \/ /\ crashed' = TRUE
          /\ last' = Call("UnpinPage", page_id, NullFrame, FALSE, is_dirty, TRUE, "none")
       \/ \E ret \in BOOLEAN :
             /\ last' = Call("UnpinPage", page_id, NullFrame, ret, is_dirty, TRUE, "none")
             /\ UNCHANGED crashed
    /\ UNCHANGED <<BpmState, expected>>

\* the caller holding page_id writes bytes into its frame before reporting it dirty
CallerWrite(s, frame_id, is_dirty, bytes) ==
    IF is_dirty THEN [s EXCEPT !.pages[frame_id].data = bytes] ELSE s

NullDeref == "nullptr"

\* =====================================================================
\* src/buffer/buffer_pool_manager_instance.cpp
\* =====================================================================
\* a page-table hit returns the frame as it is: no pin, no RecordAccess
FetchPgImpRes(s, page_id) ==
    IF page_id \in DOMAIN s.page_table
    THEN IF s.page_table[page_id] # NullFrame
         THEN [frame |-> s.page_table[page_id], how |-> "hit", s |-> s]
         ELSE FetchMiss(s, page_id)
    ELSE [frame |-> NullFrame, how |-> "none", s |-> s]

FetchPgImp(page_id) ==
    /\ ~crashed
    /\ UNCHANGED htvars
    /\ LET res == FetchPgImpRes(Bpm, page_id)
       IN  /\ res.how \in {"free", "evict"} => ClockLeft
           /\ Apply(res.s)
           /\ last' = Call("FetchPage", page_id, res.frame, res.frame # NullFrame,
                           FALSE, FALSE, res.how)
    /\ UNCHANGED <<crashed, expected>>

\* an unpin that clears the dirty flag whatever it was and whatever is reported
UnpinFrameClean(s, frame_id, is_dirty) ==
    LET pin == s.pages[frame_id].pin_count - 1
    IN  [s EXCEPT !.pages[frame_id].pin_count = pin,
                  !.pages[frame_id].is_dirty = FALSE,
                  !.replacer = IF pin = 0 THEN SetEvictableRes(@, frame_id, TRUE) ELSE @]

\* the body of UnpinPgImp for a frame with pin_count_ > 0
UnpinFrame(s, frame_id, is_dirty) ==
    LET pin == s.pages[frame_id].pin_count - 1
    IN  [s EXCEPT !.pages[frame_id].pin_count = pin,
                  !.pages[frame_id].is_dirty = is_dirty,
                  !.replacer = IF pin = 0 THEN SetEvictableRes(@, frame_id, TRUE) ELSE @]

UnpinPgImp(page_id, is_dirty, bytes) ==
    /\ ~crashed
    /\ UNCHANGED htvars
    /\ IF page_id \in DOMAIN page_table
       THEN IF page_table[page_id] = NullFrame
            THEN UnpinOutOfBounds(page_id, is_dirty)
            ELSE LET frame_id == page_table[page_id]
                 IN  IF pages[frame_id].pin_count > 0
                     THEN /\ Apply(UnpinFrame(CallerWrite(Bpm, frame_id, is_dirty, bytes),
                                              frame_id, is_dirty))
                          /\ expected' = IF is_dirty THEN Put(expected, page_id, bytes)
                                         ELSE expected
                          /\ last' = Call("UnpinPage", page_id, frame_id, TRUE, is_dirty,
                                          FALSE, "none")
                          /\ UNCHANGED crashed
                     ELSE /\ last' = Call("UnpinPage", page_id, frame_id, FALSE, is_dirty,
                                          FALSE, "none")
                          /\ UNCHANGED <<BpmState, crashed, expected>>
       ELSE /\ last' = Call("UnpinPage", page_id, NullFrame, FALSE, is_dirty, FALSE, "none")
            /\ UNCHANGED <<BpmState, crashed, expected>>

\* page is still nullptr at page->IsPinned(): the process is killed, or the build
\* has dropped the unreachable block and returns either value, touching nothing
DeletePgImp(page_id) ==
    /\ ~crashed
    /\ UNCHANGED htvars
    /\ IF page_id \in DOMAIN page_table
       THEN \/ /\ crashed' = TRUE
               /\ last' = Call("DeletePage", page_id, page_table[page_id], FALSE, FALSE,
                               FALSE, NullDeref)
            \/ \E ret \in BOOLEAN :
                  /\ last' = Call("DeletePage", page_id, page_table[page_id], ret, FALSE,
                                  FALSE, NullDeref)
                  /\ UNCHANGED crashed
       ELSE /\ last' = Call("DeletePage", page_id, NullFrame, TRUE, FALSE, FALSE, "none")
            /\ UNCHANGED crashed
    /\ UNCHANGED <<BpmState, expected>>

DirtyArgs == {<<FALSE, 0>>} \cup {<<TRUE, b>> : b \in Bytes}

\* page ids a caller passes: every id allocated so far and one never allocated
\* (all never-allocated ids behave alike)
PageArgs == {p \in PageIds : p <= next_page_id}

Next ==
    \/ NewPgImp
    \/ \E p \in PageArgs : FetchPgImp(p)
    \/ \E p \in PageArgs, a \in DirtyArgs : UnpinPgImp(p, a[1], a[2])
    \/ \E p \in PageArgs : FlushPgImp(p)
    \/ FlushAllPgsImp
    \/ \E p \in PageArgs : DeletePgImp(p)

Spec == Init /\ [][Next]_vars

\* =====================================================================
\* unnamed/part_000
\* =====================================================================
\* a hit that records the access but does not pin the page
FetchHitNoPin_part000(s, page_id) ==
    LET frame_id == s.page_table[page_id]
    IN  [s EXCEPT !.replacer = SetEvictableRes(RecordAccessRes(@, frame_id),
                                               frame_id, FALSE)]

FetchHit_part000(s, page_id) ==
    LET frame_id == s.page_table[page_id]
    IN  [s EXCEPT !.pages[frame_id].pin_count = @ + 1,
                  !.replacer = SetEvictableRes(RecordAccessRes(@, frame_id),
                                               frame_id, FALSE)]

FetchPgImpRes_part000(s, page_id) ==
    IF page_id \in DOMAIN s.page_table
    THEN IF s.page_table[page_id] # NullFrame
         THEN [frame |-> s.page_table[page_id], how |-> "hit",
               s |-> FetchHit_part000(s, page_id)]
         ELSE FetchMiss(s, page_id)
    ELSE [frame |-> NullFrame, how |-> "none", s |-> s]

FetchPgImp_part000(page_id) ==
    /\ ~crashed
    /\ UNCHANGED htvars
    /\ LET res == FetchPgImpRes_part000(Bpm, page_id)
       IN  /\ res.how \in {"free", "evict", "hit"} => ClockLeft
           /\ res.how = "hit" => pages[res.frame].pin_count < MaxPin
           /\ Apply(res.s)
           /\ last' = Call("FetchPage", page_id, res.frame, res.frame # NullFrame,
                           FALSE, FALSE, res.how)
    /\ UNCHANGED <<crashed, expected>>

UnpinFrame_part000(s, frame_id, is_dirty) ==
    LET pin == s.pages[frame_id].pin_count - 1
    IN  [s EXCEPT !.pages[frame_id].is_dirty = IF is_dirty THEN TRUE ELSE @,
                  !.pages[frame_id].pin_count = pin,
                  !.replacer = IF pin = 0 THEN SetEvictableRes(@, frame_id, TRUE) ELSE @]

UnpinPgImp_part000(page_id, is_dirty, bytes) ==
    /\ ~crashed
    /\ UNCHANGED htvars
    /\ IF page_id \in DOMAIN page_table
       THEN IF page_table[page_id] = NullFrame
            THEN UnpinOutOfBounds(page_id, is_dirty)
            ELSE LET frame_id == page_table[page_id]
                 IN  IF pages[frame_id].pin_count > 0
                     THEN /\ Apply(UnpinFrame_part000(
                                       CallerWrite(Bpm, frame_id, is_dirty, bytes),
                                       frame_id, is_dirty))
                          /\ expected' = IF is_dirty THEN Put(expected, page_id, bytes)
                                         ELSE expected
                          /\ last' = Call("UnpinPage", page_id, frame_id, TRUE, is_dirty,
                                          FALSE, "none")
                          /\ UNCHANGED crashed
                     ELSE /\ last' = Call("UnpinPage", page_id, frame_id, FALSE, is_dirty,
                                          FALSE, "none")
                          /\ UNCHANGED <<BpmState, crashed, expected>>
       ELSE /\ last' = Call("UnpinPage", page_id, NullFrame, FALSE, is_dirty, FALSE, "none")
            /\ UNCHANGED <<BpmState, crashed, expected>>

\* a delete that resets the frame without writing a dirty page back
DeleteResetNoFlush_part000(s, page_id, frame_id) ==
    [s EXCEPT !.pages[frame_id] = ResetPage]

\* DeletePgImp up to replacer_->Remove(frame_id): write back, reset the frame
DeleteReset_part000(s, page_id, frame_id) ==
    LET page == s.pages[frame_id]
    IN  [s EXCEPT !.disk = IF page.is_dirty THEN WritePage(@, page_id, page.data) ELSE @,
                  !.pages[frame_id] = ResetPage]

\* a delete that frees the frame but leaves its node with the replacer
DeleteFinishKeepNode_part000(s, page_id, frame_id) ==
    [s EXCEPT !.page_table = RemoveKey(@, page_id),
              !.free_list = Append(@, frame_id)]

\* and from Remove on: forget the node and the mapping, free the frame
DeleteFinish_part000(s, page_id, frame_id) ==
    [s EXCEPT !.replacer = RemoveRes(@, frame_id),
              !.page_table = RemoveKey(@, page_id),
              !.free_list = Append(@, frame_id)]

DeletePgImp_part000(page_id) ==
    /\ ~crashed
    /\ UNCHANGED htvars
    /\ IF page_id \in DOMAIN page_table
       THEN LET frame_id == page_table[page_id]
            IN  IF frame_id # NullFrame
                THEN IF pages[frame_id].pin_count = 0
                     THEN LET s1 == DeleteReset_part000(Bpm, page_id, frame_id)
                          IN  IF RemoveAssert(s1.replacer, frame_id)
                              THEN /\ Apply(DeleteFinish_part000(s1, page_id, frame_id))
                                   /\ expected' = RemoveKey(expected, page_id)
                                   /\ last' = Call("DeletePage", page_id, frame_id, TRUE,
                                                   FALSE, FALSE,
                                                   IF pages[frame_id].is_dirty
                                                   THEN "writeback" ELSE "none")
                                   /\ UNCHANGED crashed
                              ELSE /\ Apply(s1)
                                   /\ crashed' = TRUE
                                   /\ last' = Call("DeletePage", page_id, frame_id, FALSE,
                                                   FALSE, FALSE, "assert")
                                   /\ UNCHANGED expected
                     ELSE /\ last' = Call("DeletePage", page_id, frame_id, FALSE, FALSE,
                                          FALSE, "none")
                          /\ UNCHANGED <<BpmState, crashed, expected>>
                ELSE /\ Apply([Bpm EXCEPT !.replacer = RemoveRes(@, frame_id),
                                          !.page_table = RemoveKey(@, page_id)])
                     /\ expected' = RemoveKey(expected, page_id)
                     /\ last' = Call("DeletePage", page_id, NullFrame, TRUE, FALSE, FALSE,
                                     "none")
                     /\ UNCHANGED crashed
       ELSE /\ last' = Call("DeletePage", page_id, NullFrame, FALSE, FALSE, FALSE, "none")
            /\ UNCHANGED <<BpmState, crashed, expected>>

NextPart000 ==
    \/ NewPgImp
    \/ \E p \in PageArgs : FetchPgImp_part000(p)
    \/ \E p \in PageArgs, a \in DirtyArgs : UnpinPgImp_part000(p, a[1], a[2])
    \/ \E p \in PageArgs : FlushPgImp(p)
    \/ FlushAllPgsImp
    \/ \E p \in PageArgs : DeletePgImp_part000(p)

SpecPart000 == Init /\ [][NextPart000]_vars

\* =====================================================================
\* Properties of the buffer pool manager
\* =====================================================================
Resident(p) == \E f \in Frames : pages[f].page_id = p

FrameOf(p) == CHOOSE f \in Frames : pages[f].page_id = p

AllPinned == \A f \in Frames : pages[f].pin_count > 0

Returned == last.op \in {"NewPage", "FetchPage"} /\ last.frame # NullFrame

\* the page just returned is bound to the frame, pinned and not evictable
PinnedOnReturn ==
    Returned => /\ pages[last.frame].page_id = last.page_id
                /\ pages[last.frame].pin_count >= 1
                /\ ~Evitable(replacer, last.frame)

\* C1: a page returned by NewPage or FetchPage is pinned (pin_count >= 1) and its
\* frame is not evictable; FetchPage of a resident page adds one to its pin count;
\* and while a frame's pin count is above 0 no call rebinds it to another page.
C1_PinnedUntilUnpinned ==
    [][/\ PinnedOnReturn'
       /\ (last'.op = "FetchPage" /\ last'.how = "hit")
             => pages'[last'.frame].pin_count = pages[last'.frame].pin_count + 1
       /\ \A f \in Frames :
             pages[f].pin_count > 0 => pages'[f].page_id = pages[f].page_id]_vars

\* C2: FetchPage of a page created by NewPage returns the bytes last written into
\* it and reported with UnpinPage(P, true), whatever calls came in between.
C2_RoundTrip ==
    (last.op = "FetchPage" /\ last.frame # NullFrame /\ last.page_id \in DOMAIN expected)
        => pages[last.frame].data = expected[last.page_id]

\* C3: NewPage returns none exactly when the free list is empty and every frame is
\* pinned, and then changes nothing; otherwise it returns the next page id, bound
\* with pin_count 1 to a frame which, when the free list is empty, is one whose
\* pin count was 0 (the frame just unpinned when it is the only one).
C3_NewPageSaturation ==
    [][last'.op = "NewPage"
          => /\ (last'.frame = NullFrame) <=> (free_list = <<>> /\ AllPinned)
             /\ last'.frame = NullFrame => UNCHANGED BpmState
             /\ last'.frame # NullFrame
                   => /\ last'.page_id = next_page_id
                      /\ next_page_id' = next_page_id + 1
                      /\ last'.page_id \notin DOMAIN page_table
                      /\ pages'[last'.frame].page_id = last'.page_id
                      /\ pages'[last'.frame].pin_count = 1
                      /\ free_list = <<>> => pages[last'.frame].pin_count = 0]_vars

\* NewPage has just reused the only unpinned frame of a pool with no free frame
C3_Witness ==
    /\ last.op = "NewPage" /\ last.how = "evict"
    /\ AllPinned
    /\ Cardinality(Frames) >= 2
    /\ pages[last.frame].page_id = last.page_id

\* C4: FetchPage of a page no frame holds returns a frame holding the page's disk
\* bytes whenever the free list is non-empty or some frame is unpinned, and none
\* only when every frame is pinned.
C4_FetchMissLoads ==
    [][(last'.op = "FetchPage" /\ ~Resident(last'.page_id))
          => IF free_list # <<>> \/ ~AllPinned
             THEN /\ last'.frame # NullFrame
                  /\ pages'[last'.frame].page_id = last'.page_id
                  /\ pages'[last'.frame].data = disk'[last'.page_id]
             ELSE last'.frame = NullFrame]_vars

C6_UnpinContract ==
    [][last'.op = "UnpinPage"
          => /\ ~last'.oob
             /\ ~crashed'
             /\ IF Resident(last'.page_id) /\ pages[FrameOf(last'.page_id)].pin_count > 0
                THEN LET f == FrameOf(last'.page_id)
                     IN  /\ last'.ok
                         /\ pages'[f].pin_count = pages[f].pin_count - 1
                         /\ Evitable(replacer', f) <=> (pages'[f].pin_count = 0)
                ELSE /\ ~last'.ok
                     /\ UNCHANGED BpmState]_vars

\* C7: FlushPage returns false and writes nothing when no frame holds the page;
\* otherwise it writes the frame's bytes under the page id, clears the dirty flag,
\* returns true and leaves pin count and evictability alone.
C7_FlushContract ==
    [][last'.op = "FlushPage"
          => IF Resident(last'.page_id)
             THEN LET f == FrameOf(last'.page_id)
                  IN  /\ last'.ok
                      /\ disk' = [disk EXCEPT ![last'.page_id] = pages[f].data]
                      /\ pages' = [pages EXCEPT ![f].is_dirty = FALSE]
                      /\ replacer' = replacer
             ELSE /\ ~last'.ok
                  /\ ~crashed'
                  /\ disk' = disk]_vars

\* C8: DeletePage of a resident page with pin_count > 0 returns false and leaves
\* frames, page table, replacer and free list as they were.
C8_PinnedDeleteRefused ==
    [][(/\ last'.op = "DeletePage"
        /\ Resident(last'.page_id)
        /\ pages[FrameOf(last'.page_id)].pin_count > 0)
          => /\ ~crashed'
             /\ ~last'.ok
             /\ UNCHANGED BpmState]_vars

\* C9: DeletePage of a page no frame holds returns true and changes no frame, no
\* pin count and not the free list.
C9_AbsentDeleteSucceeds ==
    [][(last'.op = "DeletePage" /\ ~Resident(last'.page_id))
          => /\ last'.ok
             /\ ~crashed'
             /\ UNCHANGED <<pages, free_list>>]_vars

\* =====================================================================
\* Properties of the replacer
\* =====================================================================
EvictableFrames(r) == {f \in DOMAIN r.lru_access_map : r.lru_access_map[f].evictable}

\* the victim the backward K-distance rule names, from the full access histories
FirstAccess(r, f) == r.lru_access_map[f].all[1]

KthRecentAccess(r, f) ==
    LET h == r.lru_access_map[f].all IN h[Len(h) - r.k + 1]

FewerThanK(r) == {f \in EvictableFrames(r) : Len(r.lru_access_map[f].all) < r.k}

ExpectedVictim(r) ==
    IF FewerThanK(r) # {}
    THEN CHOOSE f \in FewerThanK(r) :
             \A g \in FewerThanK(r) : FirstAccess(r, f) <= FirstAccess(r, g)
    ELSE CHOOSE f \in EvictableFrames(r) :
             \A g \in EvictableFrames(r) : KthRecentAccess(r, f) <= KthRecentAccess(r, g)

\* C10: a successful Evict returns an evictable frame: the one with the smallest
\* earliest recorded access among the evictable frames with fewer than K recorded
\* accesses if there is one, otherwise the one whose K-th most recent access is
\* smallest; a non-evictable frame is never returned.
C10_EvictVictim ==
    [][(last'.op = "Evict" /\ last'.ok)
          => /\ last'.frame \in EvictableFrames(replacer)
             /\ last'.frame = ExpectedVictim(replacer)]_vars

\* Evict passed over an evictable frame that was accessed first of all (time 0)
\* and has K accesses, while a non-evictable frame is known as well
C10_Witness ==
    /\ last.op = "Evict" /\ last.ok
    /\ replacer.k >= 2
    /\ \E g \in EvictableFrames(replacer) :
           /\ FirstAccess(replacer, g) = 0
           /\ Len(replacer.lru_access_map[g].all) > replacer.k

\* C11: Size() is the number of known frames flagged evictable; SetEvictable does
\* nothing on an unknown frame and moves Size by exactly one on a flag transition
\* and by nothing otherwise; Evict fails exactly when Size() is 0 and otherwise
\* removes exactly one evictable frame and takes one off Size.
C11_SizeCountsEvictable ==
    [][/\ Size(replacer') = Cardinality(EvictableFrames(replacer'))
       /\ last'.op = "SetEvictable"
             => IF ~Known(replacer, last'.frame)
                THEN replacer' = replacer
                ELSE Size(replacer') - Size(replacer)
                         = (IF last'.flag /\ ~Evitable(replacer, last'.frame) THEN 1
                            ELSE IF ~last'.flag /\ Evitable(replacer, last'.frame) THEN -1
                            ELSE 0)
       /\ last'.op = "Evict"
             => /\ last'.ok <=> Size(replacer) # 0
                /\ ~last'.ok => replacer' = replacer
                /\ last'.ok
                      => /\ last'.frame \in EvictableFrames(replacer)
                         /\ DOMAIN replacer'.lru_access_map
                                = (DOMAIN replacer.lru_access_map) \ {last'.frame}
                         /\ Size(replacer') = Size(replacer) - 1]_vars

\* an Evict succeeded and left one evictable and one non-evictable frame behind
C11_Witness ==
    /\ last.op = "Evict" /\ last.ok
    /\ Size(replacer) = 1
    /\ Cardinality(DOMAIN replacer.lru_access_map) = 2

\* C12: RecordAccess(f) is rejected by the assertion for every f >= num_frames, so
\* the replacer tracks only frame ids in [0, num_frames) and at most num_frames of
\* them.
C12_CapacityBound ==
    [][/\ (last'.op = "RecordAccess" /\ last'.frame >= replacer.replacer_size)
             => crashed'
       /\ DOMAIN replacer'.lru_access_map \subseteq 0 .. (replacer'.replacer_size - 1)
       /\ Cardinality(DOMAIN replacer'.lru_access_map) <= replacer'.replacer_size]_vars

\* C13: Remove changes nothing on an unknown frame, trips the assertion on a known
\* non-evictable frame, and on a known evictable frame takes one off Size and
\* erases the frame with its access history: the frame is unknown afterwards, and
\* a RecordAccess on an unknown frame starts from one recorded access.
C13_RemoveContract ==
    [][/\ last'.op = "Remove"
             => IF ~Known(replacer, last'.frame)
                THEN replacer' = replacer /\ ~crashed'
                ELSE IF ~Evitable(replacer, last'.frame)
                THEN crashed' /\ replacer' = replacer
                ELSE /\ ~crashed'
                     /\ Size(replacer') = Size(replacer) - 1
                     /\ ~Known(replacer', last'.frame)
                     /\ last'.frame \notin EvictableFrames(replacer')
                     /\ EviNodeChoice(replacer') # last'.frame
                     /\ SetEvictableRes(replacer', last'.frame, TRUE) = replacer'
       /\ (last'.op = "RecordAccess" /\ last'.ok /\ ~Known(replacer, last'.frame))
             => /\ AccessCount(replacer'.lru_access_map[last'.frame]) = 1
                /\ replacer'.lru_access_map[last'.frame].all
                       = <<replacer.current_timestamp>>
                /\ ~Evitable(replacer', last'.frame)]_vars

\* Remove erased a known evictable frame that had been accessed at least twice
C13_Witness ==
    /\ last.op = "Remove" /\ last.how = "erased"
    /\ ~Known(replacer, last.frame)
    /\ replacer.current_timestamp >= 2
    /\ replacer.lru_access_map = <<>>

\* =====================================================================
\* ExtendibleHashTable (src/container/hash/extendible_hash_table.cpp)
\* =====================================================================
MaxBucketSize == 2  \* largest bucket_size a table is built with
MaxSplits == 3      \* splits one Insert call is followed through

\* keys with pairwise distinct hash values; 0 and 2 agree on their low bit
HtKeys == {0, 1, 2, 3}
HtValues == {10, 11}

\* std::hash<int> is the identity
Hash(key) == key

\* a Bucket: depth_ and list_ (key-value pairs in insertion order)
NewBucket(depth) == [depth |-> depth, list |-> <<>>]

\* the constructor: one bucket of depth 0 behind a directory of one slot
NewTable(bucket_size) ==
    [global_depth |-> 0,
     bucket_size |-> bucket_size,
     num_buckets |-> 1,
     dir |-> [i \in {0} |-> 1],
     buckets |-> <<NewBucket(0)>>]

\* hash & ((1 << global_depth_) - 1)
IndexOf(t, key) == Hash(key) % (2 ^ t.global_depth)

GetSufix(index, depth) == index % (2 ^ depth)

IsFull(t, b) == Len(t.buckets[b].list) >= t.bucket_size

\* Bucket::Find: [ok, value] of the first pair with the key
BucketFind(list, key) ==
    LET hits == {i \in 1 .. Len(list) : list[i].key = key}
    IN  IF hits = {} THEN [ok |-> FALSE, value |-> 0]
        ELSE [ok |-> TRUE, value |-> list[Min(hits)].value]

\* Bucket::Remove: [ok, list] with the first pair with the key erased
BucketRemove(list, key) ==
    LET hits == {i \in 1 .. Len(list) : list[i].key = key}
    IN  IF hits = {} THEN [ok |-> FALSE, list |-> list]
        ELSE [ok |-> TRUE,
              list |-> SubSeq(list, 1, Min(hits) - 1)
                          \o SubSeq(list, Min(hits) + 1, Len(list))]

\* Bucket::Insert: refused when full, else update in place or append
BucketInsert(t, b, key, value) ==
    LET list == t.buckets[b].list
        hits == {i \in 1 .. Len(list) : list[i].key = key}
    IN  IF IsFull(t, b) THEN t
        ELSE IF hits # {}
        THEN [t EXCEPT !.buckets[b].list[Min(hits)].value = value]
        ELSE [t EXCEPT !.buckets[b].list = Append(@, [key |-> key, value |-> value])]

InsertNoLock(t, key, value, index) == BucketInsert(t, t.dir[index], key, value)

\* a doubling that also sets the bucket count to the number of slots
ReserveBucketCountSlots(t) ==
    LET ori_size == 2 ^ t.global_depth
    IN  [t EXCEPT !.global_depth = @ + 1,
                  !.num_buckets = 2 * ori_size,
                  !.dir = [i \in 0 .. (2 * ori_size - 1) |->
                              IF i < ori_size THEN t.dir[i] ELSE t.dir[i - ori_size]]]

\* ReserveBucket: one more bit, the upper half of dir_ repeats the lower half
ReserveBucket(t) ==
    LET ori_size == 2 ^ t.global_depth
    IN  [t EXCEPT !.global_depth = @ + 1,
                  !.dir = [i \in 0 .. (2 * ori_size - 1) |->
                              IF i < ori_size THEN t.dir[i] ELSE t.dir[i - ori_size]]]

IncreaseGlobalDepth(t) == ReserveBucket(t)

\* the loop of RedistributeBucket over the copied item list
RECURSIVE RedistributeItems(_, _)
RedistributeItems(t, list) ==
    IF list = <<>> THEN t
    ELSE RedistributeItems(
             InsertNoLock(t, Head(list).key, Head(list).value, IndexOf(t, Head(list).key)),
             Tail(list))

RedistributeBucket(t, b) ==
    RedistributeItems([t EXCEPT !.buckets[b].list = <<>>], t.buckets[b].list)

\* the directory slots IncreaseLocalDepth hands to the new bucket
NewBucketSlots(t, index, depth, global_depth) ==
    LET new_depth == depth + 1
        new_index == (2 ^ depth) + GetSufix(index, depth)
    IN  {i \in 0 .. ((2 ^ global_depth) - 1) : GetSufix(i, new_depth) = new_index}

\* a split that leaves the old bucket's depth as it was
IncreaseLocalDepthKeepDepth(t, index, depth, global_depth, old_bucket) ==
    LET bucket == Len(t.buckets) + 1
        slots == NewBucketSlots(t, index, depth, global_depth)
        t1 == [t EXCEPT !.buckets = Append(@, NewBucket(depth + 1)),
                        !.dir = [i \in DOMAIN @ |-> IF i \in slots THEN bucket ELSE @[i]]]
    IN  [RedistributeBucket(t1, old_bucket) EXCEPT !.num_buckets = @ + 1]

IncreaseLocalDepth(t, index, depth, global_depth, old_bucket) ==
    LET bucket == Len(t.buckets) + 1
        slots == NewBucketSlots(t, index, depth, global_depth)
        t1 == [t EXCEPT !.buckets = Append(@, NewBucket(depth + 1)),
                        !.dir = [i \in DOMAIN @ |-> IF i \in slots THEN bucket ELSE @[i]]]
        t2 == [t1 EXCEPT !.buckets[old_bucket].depth = @ + 1]
    IN  [RedistributeBucket(t2, old_bucket) EXCEPT !.num_buckets = @ + 1]

\* the full branch of Insert: double if needed, split the bucket
SplitFor(t, key) ==
    LET buck == t.dir[IndexOf(t, key)]
        depth == t.buckets[buck].depth
        doubled == depth = t.global_depth
        t1 == IF doubled THEN IncreaseGlobalDepth(t) ELSE t
        global_depth == IF doubled THEN t.global_depth + 1 ELSE t.global_depth
    IN  IncreaseLocalDepth(t1, IndexOf(t1, key), depth, global_depth, buck)

\* Insert with its retries: [t, returned, splits]; returned is FALSE when the
\* call is still splitting after MaxSplits splits
RECURSIVE InsertRes(_, _, _, _)
InsertRes(t, key, value, fuel) ==
    LET buck == t.dir[IndexOf(t, key)]
    IN  IF IsFull(t, buck)
        THEN IF fuel = 0
             THEN [t |-> t, returned |-> FALSE, splits |-> 0]
             ELSE LET r == InsertRes(SplitFor(t, key), key, value, fuel - 1)
                  IN  [r EXCEPT !.splits = @ + 1]
        ELSE [t |-> BucketInsert(t, buck, key, value), returned |-> TRUE, splits |-> 0]

FindRes(t, key) == BucketFind(t.buckets[t.dir[IndexOf(t, key)]].list, key)

HtRemoveRes(t, key) ==
    LET buck == t.dir[IndexOf(t, key)]
        r == BucketRemove(t.buckets[buck].list, key)
    IN  [ok |-> r.ok, t |-> [t EXCEPT !.buckets[buck].list = r.list]]

\* ------------------------------------------------ one call at a time
\* hcall: op, the key and value passed, the boolean and value returned, the number
\* of splits the call made, and whether it returned at all
NoHCall == [op |-> "none", key |-> 0, value |-> 0, ok |-> FALSE, out |-> 0,
            splits |-> 0, returned |-> TRUE]

\* the pool and the replacer stand still while a table is driven directly
BpmIdle ==
    /\ InitPool(1)
    /\ replacer = NewReplacer(1, 1)

PoolUnchanged ==
    UNCHANGED <<pages, free_list, page_table, replacer, next_page_id, disk,
                crashed, last, expected>>

InitHT ==
    /\ BpmIdle
    /\ \E bucket_size \in 1 .. MaxBucketSize : table = NewTable(bucket_size)
    /\ kv = <<>>
    /\ hcall = NoHCall
    /\ threads = <<>>
    /\ latch = <<>>

\* a caller can make its next call only after the previous one returned
HtInsert(key, value) ==
    /\ hcall.returned
    /\ LET r == InsertRes(table, key, value, MaxSplits)
       IN  /\ table' = r.t
           /\ kv' = IF r.returned THEN Put(kv, key, value) ELSE kv
           /\ hcall' = [NoHCall EXCEPT !.op = "Insert", !.key = key, !.value = value,
                                       !.ok = r.returned, !.splits = r.splits,
                                       !.returned = r.returned]
    /\ UNCHANGED <<threads, latch>>
    /\ PoolUnchanged

HtFind(key) ==
    /\ hcall.returned
    /\ LET r == FindRes(table, key)
       IN  hcall' = [NoHCall EXCEPT !.op = "Find", !.key = key, !.ok = r.ok,
                                    !.out = r.value]
    /\ UNCHANGED <<table, kv, threads, latch>>
    /\ PoolUnchanged

HtRemove(key) ==
    /\ hcall.returned
    /\ LET r == HtRemoveRes(table, key)
       IN  /\ table' = r.t
           /\ hcall' = [NoHCall EXCEPT !.op = "Remove", !.key = key, !.ok = r.ok]
    /\ kv' = RemoveKey(kv, key)
    /\ UNCHANGED <<threads, latch>>
    /\ PoolUnchanged

NextHT ==
    \/ \E key \in HtKeys, value \in HtValues : HtInsert(key, value)
    \/ \E key \in HtKeys : HtFind(key)
    \/ \E key \in HtKeys : HtRemove(key)

SpecHT == InitHT /\ [][NextHT]_vars

\* =====================================================================
\* The table called by concurrent threads.  A step is what one thread does
\* between two latch operations; data guarded by a latch is read and written in
\* the step that holds it.
\* =====================================================================
NumThreads == 2     \* threads calling the table
MaxCalls == 2       \* calls each thread makes

Threads == 1 .. NumThreads

\* a thread: the call in progress (op, key, value), its position pc, the bucket it
\* read from the directory, the splits the call has made, and the calls completed;
\* index is the local variable of that name in the part_001 calls, and had tells
\* that the key was in the map when the call began and was not written since
IdleThread == [pc |-> "idle", op |-> "none", key |-> 0, value |-> 0, bucket |-> 0,
               splits |-> 0, calls |-> 0, index |-> 0, had |-> FALSE]

\* std::mutex: 0 when free, else the owning thread
NewLatches == [dir |-> 0, bucket |-> <<0>>]

HeldBuckets(l, th) == {b \in 1 .. Len(l.bucket) : l.bucket[b] = th}

\* what Insert gives back after a split: the new bucket's scoped_lock ends,
\* buck->latch_.unlock(), latch_.unlock()
ReleaseDirOnly(l, th) == [l EXCEPT !.dir = 0]

ReleaseAfterSplit(l, th) ==
    [l EXCEPT !.dir = 0,
              !.bucket = [b \in 1 .. Len(@) |-> IF @[b] = th THEN 0 ELSE @[b]]]

\* a slot read that does not take latch_ first
TakeNoDir(l, th) == l

\* latch_.lock()
TakeDir(l, th) == [l EXCEPT !.dir = th]

InitHTC ==
    /\ BpmIdle
    /\ \E bucket_size \in 1 .. MaxBucketSize : table = NewTable(bucket_size)
    /\ kv = <<>>
    /\ hcall = NoHCall
    /\ threads = [th \in Threads |-> IdleThread]
    /\ latch = NewLatches

\* the value a thread inserts tells the threads apart
ThreadValue(th) == IF th % 2 = 1 THEN 10 ELSE 11

OtherThreads(th) == UNCHANGED <<hcall>> /\ PoolUnchanged

\* a thread enters Insert, Find or Remove
CallKeyed(th, op, key, value) ==
    /\ threads[th].pc = "idle"
    /\ threads[th].calls < MaxCalls
    /\ threads' = [threads EXCEPT ![th] =
                       [IdleThread EXCEPT !.pc = "lock_dir", !.op = op, !.key = key,
                                          !.value = value, !.calls = threads[th].calls]]
    /\ UNCHANGED <<table, kv, latch>>
    /\ OtherThreads(th)

\* latch_.lock(); index = IndexOf(key); bucket = dir_[index]
LockDir(th) ==
    /\ threads[th].pc = "lock_dir"
    /\ latch.dir = 0
    /\ latch' = TakeDir(latch, th)
    /\ threads' = [threads EXCEPT ![th].pc = "lock_bucket",
                                  ![th].bucket = table.dir[IndexOf(table, threads[th].key)]]
    /\ UNCHANGED <<table, kv>>
    /\ OtherThreads(th)

\* bucket->latch_.lock() with latch_ held; Insert then reads IsFull()
LockBucket(th) ==
    /\ threads[th].pc = "lock_bucket"
    /\ latch.bucket[threads[th].bucket] = 0
    /\ latch' = [latch EXCEPT !.bucket[threads[th].bucket] = th]
    /\ threads' = [threads EXCEPT ![th].pc =
                       IF threads[th].op = "Insert" /\ IsFull(table, threads[th].bucket)
                       THEN "split" ELSE "unlock_dir"]
    /\ UNCHANGED <<table, kv>>
    /\ OtherThreads(th)

\* latch_.unlock() with the bucket latch held
UnlockDir(th) ==
    /\ threads[th].pc = "unlock_dir"
    /\ latch' = [latch EXCEPT !.dir = 0]
    /\ threads' = [threads EXCEPT ![th].pc = "bucket_op"]
    /\ UNCHANGED <<table, kv>>
    /\ OtherThreads(th)

\* what the call on the bucket returns: [ok, value]
BucketOpResult(th) ==
    LET list == table.buckets[threads[th].bucket].list
    IN  CASE threads[th].op = "Find" -> BucketFind(list, threads[th].key)
          [] threads[th].op = "Remove" ->
                [ok |-> BucketRemove(list, threads[th].key).ok, value |-> 0]
          [] OTHER -> [ok |-> ~IsFull(table, threads[th].bucket), value |-> 0]

\* the call on the bucket, bucket->latch_.unlock(), return
BucketOp(th) ==
    /\ threads[th].pc = "bucket_op"
    /\ LET me == threads[th]
           b == me.bucket
       IN  CASE me.op = "Find" -> UNCHANGED <<table, kv>>
             [] me.op = "Remove" ->
                   /\ table' = [table EXCEPT !.buckets[b].list =
                                    BucketRemove(@, me.key).list]
                   /\ kv' = RemoveKey(kv, me.key)
             [] me.op = "Insert" ->
                   /\ table' = BucketInsert(table, b, me.key, me.value)
                   /\ kv' = Put(kv, me.key, me.value)
    /\ threads' = [threads EXCEPT ![th] =
                       [IdleThread EXCEPT !.calls = threads[th].calls + 1]]
    /\ latch' = [latch EXCEPT !.bucket[threads[th].bucket] = 0]
    /\ OtherThreads(th)

\* the full branch up to the end of IncreaseLocalDepth: the new bucket is made and
\* its latch taken before any slot refers to it
Split(th) ==
    /\ threads[th].pc = "split"
    /\ threads[th].splits < MaxSplits
    /\ table' = SplitFor(table, threads[th].key)
    /\ latch' = [latch EXCEPT !.bucket = Append(@, th)]
    /\ threads' = [threads EXCEPT ![th].pc = "split_done", ![th].splits = @ + 1]
    /\ UNCHANGED kv
    /\ OtherThreads(th)

\* the latches go back and Insert(key, value) is called again
SplitDone(th) ==
    /\ threads[th].pc = "split_done"
    /\ latch' = ReleaseAfterSplit(latch, th)
    /\ threads' = [threads EXCEPT ![th].pc = "lock_dir", ![th].bucket = 0]
    /\ UNCHANGED <<table, kv>>
    /\ OtherThreads(th)

\* a call that has split MaxSplits times and finds its bucket full again is not
\* followed further: it goes on splitting and never returns
Runaway(th) ==
    /\ threads[th].pc = "split"
    /\ threads[th].splits = MaxSplits
    /\ latch' = ReleaseAfterSplit(latch, th)
    /\ threads' = [threads EXCEPT ![th].pc = "runaway", ![th].bucket = 0]
    /\ UNCHANGED <<table, kv>>
    /\ OtherThreads(th)

\* GetGlobalDepth / GetNumBuckets: scoped_lock on latch_ around the read
ReadUnderDir(th, op) ==
    /\ threads[th].pc = "idle"
    /\ threads[th].calls < MaxCalls
    /\ latch.dir = 0
    /\ threads' = [threads EXCEPT ![th] =
                       [IdleThread EXCEPT !.calls = threads[th].calls + 1]]
    /\ UNCHANGED <<table, kv, latch>>
    /\ OtherThreads(th)

\* GetLocalDepth(dir_index): dir_[dir_index] is read without latch_; a slot being
\* rewritten by a split is read as the old or the new bucket
GetLocalDepthRead(th, dir_index) ==
    /\ threads[th].pc = "idle"
    /\ threads[th].calls < MaxCalls
    /\ dir_index \in DOMAIN table.dir
    /\ threads' = [threads EXCEPT ![th] =
                       [IdleThread EXCEPT !.pc = "depth_lock", !.op = "GetLocalDepth",
                                          !.key = dir_index,
                                          !.bucket = table.dir[dir_index],
                                          !.calls = threads[th].calls]]
    /\ UNCHANGED <<table, kv, latch>>
    /\ OtherThreads(th)

\* scoped_lock on the bucket's latch around GetDepth()
GetLocalDepthLocked(th) ==
    /\ threads[th].pc = "depth_lock"
    /\ latch.bucket[threads[th].bucket] = 0
    /\ threads' = [threads EXCEPT ![th] =
                       [IdleThread EXCEPT !.calls = threads[th].calls + 1]]
    /\ UNCHANGED <<table, kv, latch>>
    /\ OtherThreads(th)

NextHTC ==
    \/ \E th \in Threads, key \in HtKeys : CallKeyed(th, "Insert", key, ThreadValue(th))
    \/ \E th \in Threads, key \in HtKeys : CallKeyed(th, "Find", key, 0)
    \/ \E th \in Threads, key \in HtKeys : CallKeyed(th, "Remove", key, 0)
    \/ \E th \in Threads : LockDir(th)
    \/ \E th \in Threads : LockBucket(th)
    \/ \E th \in Threads : UnlockDir(th)
    \/ \E th \in Threads : BucketOp(th)
    \/ \E th \in Threads : Split(th)
    \/ \E th \in Threads : SplitDone(th)
    \/ \E th \in Threads : Runaway(th)
    \/ \E th \in Threads : ReadUnderDir(th, "GetGlobalDepth")
    \/ \E th \in Threads : ReadUnderDir(th, "GetNumBuckets")
    \/ \E th \in Threads, i \in 0 .. ((2 ^ MaxSplits) - 1) : GetLocalDepthRead(th, i)
    \/ \E th \in Threads : GetLocalDepthLocked(th)

SpecHTC == InitHTC /\ [][NextHTC]_vars

\* =====================================================================
\* Properties of the hash table
\* =====================================================================
\* the pairs held by all buckets together
RECURSIVE PairCount(_, _)
PairCount(t, b) ==
    IF b > Len(t.buckets) THEN 0 ELSE Len(t.buckets[b].list) + PairCount(t, b + 1)

\* the table answers Find exactly as the map m, and holds one pair per key of m
StandsFor(t, m) ==
    /\ \A key \in HtKeys :
          FindRes(t, key) = IF key \in DOMAIN m THEN [ok |-> TRUE, value |-> m[key]]
                            ELSE [ok |-> FALSE, value |-> 0]
    /\ PairCount(t, 1) = Cardinality(DOMAIN m)

\* directory shape: 2^global_depth slots, local depth <= global depth, and slot i
\* holds the bucket named by the low local-depth bits of i
DirShape(t) ==
    /\ DOMAIN t.dir = 0 .. ((2 ^ t.global_depth) - 1)
    /\ \A i \in DOMAIN t.dir :
          /\ t.buckets[t.dir[i]].depth <= t.global_depth
          /\ t.dir[i] = t.dir[GetSufix(i, t.buckets[t.dir[i]].depth)]

\* C14: the table behaves as a map: every Insert returns and makes Find(k) give the
\* inserted value with a single pair for k, Find returns what the map holds, Remove
\* returns true exactly when the key was present, and after every call (splits and
\* doublings included) each stored key is found with its value and no other is.
C14_BehavesAsMap ==
    [][/\ hcall'.op = "Insert"
             => /\ hcall'.returned
                /\ FindRes(table', hcall'.key) = [ok |-> TRUE, value |-> hcall'.value]
                /\ StandsFor(table', Put(kv, hcall'.key, hcall'.value))
       /\ hcall'.op = "Find"
             => /\ hcall'.ok <=> hcall'.key \in DOMAIN kv
                /\ hcall'.ok => hcall'.out = kv[hcall'.key]
                /\ table' = table
       /\ hcall'.op = "Remove"
             => /\ hcall'.ok <=> hcall'.key \in DOMAIN kv
                /\ StandsFor(table', RemoveKey(kv, hcall'.key))]_vars

\* C17: every Insert call returns, with the key stored, for every bucket_size >= 1,
\* whether the key is new or already stored.
C17_InsertTerminates ==
    [][hcall'.op = "Insert"
          => /\ hcall'.returned
             /\ FindRes(table', hcall'.key).ok]_vars

\* C18: Insert of a key that is already stored updates the value in place and does
\* not split: global depth, every local depth, the directory and NumBuckets stay
\* as they were, also when the key's bucket is full.
C18_UpsertInPlace ==
    [][(hcall'.op = "Insert" /\ FindRes(table, hcall'.key).ok)
          => /\ hcall'.splits = 0
             /\ table'.global_depth = table.global_depth
             /\ table'.dir = table.dir
             /\ table'.num_buckets = table.num_buckets
             /\ Len(table'.buckets) = Len(table.buckets)
             /\ \A b \in 1 .. Len(table.buckets) :
                   table'.buckets[b].depth = table.buckets[b].depth
             /\ FindRes(table', hcall'.key) = [ok |-> TRUE, value |-> hcall'.value]]_vars

\* ------------------------------------------------ concurrent calls
\* what the call of thread th must return by the map the table stands for
MapResult(th) ==
    LET key == threads[th].key
    IN  CASE threads[th].op = "Find" ->
                IF key \in DOMAIN kv THEN [ok |-> TRUE, value |-> kv[key]]
                ELSE [ok |-> FALSE, value |-> 0]
          [] threads[th].op = "Remove" -> [ok |-> key \in DOMAIN kv, value |-> 0]
          [] OTHER -> [ok |-> TRUE, value |-> 0]

\* C15: concurrent Insert, Find and Remove calls are linearizable, each taking
\* effect at its step on the bucket: the table always stands for the map built
\* from the calls in that order (no insert is lost, whatever splits and doublings
\* the racing inserts make), and every call works on the bucket that owns its key
\* and returns what that map gives.
C15_Linearizable ==
    /\ StandsFor(table, kv)
    /\ \A th \in DOMAIN threads :
          threads[th].pc = "bucket_op"
             => /\ threads[th].bucket = table.dir[IndexOf(table, threads[th].key)]
                /\ BucketOpResult(th) = MapResult(th)

\* two inserts of distinct keys by different threads are both stored after each
\* of the two calls has split a bucket
C15_Witness ==
    /\ threads # <<>>
    /\ \E th1 \in DOMAIN threads, th2 \in DOMAIN threads :
          /\ th1 # th2
          /\ threads[th1].op = "Insert" /\ threads[th1].pc = "bucket_op"
          /\ threads[th1].splits >= 1
          /\ threads[th2].pc = "idle" /\ threads[th2].calls >= 1
          /\ \E key \in DOMAIN kv :
                /\ key # threads[th1].key
                /\ kv[key] = ThreadValue(th2)
                /\ table.dir[IndexOf(table, key)] # threads[th1].bucket
    /\ table.global_depth >= 2

\* the latch a thread is waiting for is held by: 0 when it waits for none or the
\* latch is free
WaitsFor(th) ==
    CASE threads[th].pc = "lock_dir" -> latch.dir
      [] threads[th].pc \in {"lock_bucket", "depth_lock"} ->
            latch.bucket[threads[th].bucket]
      [] OTHER -> 0

\* following the holders from th ends at a thread that can step
RECURSIVE WaitEnds(_, _)
WaitEnds(th, n) ==
    IF WaitsFor(th) = 0 THEN TRUE
    ELSE IF n = 0 THEN FALSE
    ELSE WaitEnds(WaitsFor(th), n - 1)

\* C16: the two-level latching cannot deadlock: a thread asks for the directory
\* latch only while it holds no latch at all, never asks for a latch it already
\* holds, holds no latch once its call has returned, and every chain of threads
\* waiting for one another ends at a thread that can take a step.
C16_LatchDiscipline ==
    \A th \in DOMAIN threads :
       /\ threads[th].pc = "lock_dir"
             => latch.dir # th /\ HeldBuckets(latch, th) = {}
       /\ threads[th].pc \in {"lock_bucket", "depth_lock"}
             => latch.bucket[threads[th].bucket] # th
       /\ threads[th].pc \in {"idle", "runaway"}
             => latch.dir # th /\ HeldBuckets(latch, th) = {}
       /\ WaitEnds(th, NumThreads)

\* after a split, a thread holding the directory latch waits for a bucket latch
\* that another thread holds
C16_Witness ==
    /\ threads # <<>>
    /\ table.num_buckets >= 2
    /\ \E th1 \in DOMAIN threads, th2 \in DOMAIN threads :
          /\ th1 # th2
          /\ threads[th1].pc = "lock_bucket"
          /\ latch.dir = th1
          /\ latch.bucket[threads[th1].bucket] = th2

\* ------------------------------------------------ pool invariants
InFreeList(f) == \E i \in 1 .. Len(free_list) : free_list[i] = f

\* C19: every frame is in exactly one of three states: in the free list; evictable
\* in the replacer with pin_count = 0; or pinned and neither in the free list nor
\* evictable.  No frame is in none of them, in two of them, or twice in the free
\* list.
C19_FrameStates ==
    /\ \A f \in Frames :
          LET free == InFreeList(f)
              evictable == Evitable(replacer, f) /\ pages[f].pin_count = 0
              held == pages[f].pin_count > 0 /\ ~InFreeList(f) /\ ~Evitable(replacer, f)
          IN  /\ free \/ evictable \/ held
              /\ ~(free /\ evictable)
              /\ ~(free /\ held)
              /\ ~(evictable /\ held)
              /\ Evitable(replacer, f) => pages[f].pin_count = 0
    /\ \A i \in 1 .. Len(free_list), j \in 1 .. Len(free_list) :
          free_list[i] = free_list[j] => i = j

\* DeletePage has just put a frame back on the free list while another frame,
\* unpinned, is evictable
C19_Witness ==
    /\ last.op = "DeletePage" /\ last.ok
    /\ last.frame # NullFrame
    /\ InFreeList(last.frame)
    /\ \E g \in Frames : g # last.frame /\ Evitable(replacer, g)
    /\ replacer.current_timestamp >= 3

\* C20: the page table mirrors the frames: it has an entry for page id P exactly
\* when some frame holds P, the entry is that frame's id, and no two frames hold
\* the same valid page id.
C20_PageTableMirrorsFrames ==
    /\ \A p \in DOMAIN page_table :
          \E f \in Frames : pages[f].page_id = p /\ page_table[p] = f
    /\ \A f \in Frames :
          pages[f].page_id # INVALID_PAGE_ID
             => /\ pages[f].page_id \in DOMAIN page_table
                /\ page_table[pages[f].page_id] = f
    /\ \A f \in Frames, g \in Frames :
          (pages[f].page_id = pages[g].page_id /\ pages[f].page_id # INVALID_PAGE_ID)
             => f = g

\* a frame as the free list must hold it: unbound, unpinned, clean, no node
FreeFrame(page, r, f) ==
    /\ page.page_id = INVALID_PAGE_ID
    /\ page.pin_count = 0
    /\ ~page.is_dirty
    /\ ~Known(r, f)

\* C21: every frame in the free list has page_id = INVALID, pin_count = 0, is
\* clean and has no node in the replacer; a successful DeletePage(P) of a resident
\* unpinned page leaves P's frame so on the free list, removes P from the page
\* table, and writes P's bytes to disk first if the frame was dirty.
C21_FreeListFrames ==
    [][/\ \A i \in 1 .. Len(free_list) :
             FreeFrame(pages[free_list[i]], replacer, free_list[i])
       /\ \A i \in 1 .. Len(free_list') :
             FreeFrame(pages'[free_list'[i]], replacer', free_list'[i])
       /\ (last'.op = "DeletePage" /\ last'.ok /\ last'.frame # NullFrame)
             => /\ pages[last'.frame].page_id = last'.page_id
                /\ pages[last'.frame].pin_count = 0
                /\ \E i \in 1 .. Len(free_list') : free_list'[i] = last'.frame
                /\ FreeFrame(pages'[last'.frame], replacer', last'.frame)
                /\ pages'[last'.frame].data = 0
                /\ last'.page_id \notin DOMAIN page_table'
                /\ pages[last'.frame].is_dirty
                      => disk'[last'.page_id] = pages[last'.frame].data]_vars

\* DeletePage freed the frame of a dirty page whose bytes differed from the disk's
C21_Witness ==
    /\ last.op = "DeletePage" /\ last.ok /\ last.how = "writeback"
    /\ InFreeList(last.frame)
    /\ disk[last.page_id] = 1

\* ------------------------------------------------ replacer lists
Linked(list) == {list[i] : i \in 1 .. Len(list)}

\* C22: a node is linked into one of the two lists exactly when it is evictable; a
\* linked node with fewer than K recorded accesses is in the kless list and one
\* with at least K in the k list; the kless list is sorted ascending by earliest
\* recorded access and the k list ascending by K-th most recent access.
C22_ListsSorted ==
    LET r == replacer
        kless == r.kless_evi_list
        klist == r.k_evi_list
    IN  /\ Linked(kless) \cup Linked(klist) = EvictableFrames(r)
        /\ Linked(kless) \cap Linked(klist) = {}
        /\ Len(kless) + Len(klist) = Cardinality(EvictableFrames(r))
        /\ \A f \in Linked(kless) : Len(r.lru_access_map[f].all) < r.k
        /\ \A f \in Linked(klist) : Len(r.lru_access_map[f].all) >= r.k
        /\ \A i \in 1 .. Len(kless), j \in 1 .. Len(kless) :
              i < j => FirstAccess(r, kless[i]) < FirstAccess(r, kless[j])
        /\ \A i \in 1 .. Len(klist), j \in 1 .. Len(klist) :
              i < j => KthRecentAccess(r, klist[i]) < KthRecentAccess(r, klist[j])

\* RecordAccess on a node already in the k list moved it behind a node that was
\* first accessed later
C22_Witness ==
    /\ last.op = "RecordAccess" /\ last.ok
    /\ Len(replacer.k_evi_list) = 2
    /\ replacer.k_evi_list[2] = last.frame
    /\ Len(replacer.lru_access_map[last.frame].all) > replacer.k
    /\ FirstAccess(replacer, last.frame) < FirstAccess(replacer, replacer.k_evi_list[1])

\* ------------------------------------------------ directory and buckets
BucketKeys(list) == {list[i].key : i \in 1 .. Len(list)}

\* C23: between operations the directory has 2^global_depth slots; every bucket's
\* local depth is at most the global depth; two slots refer to the same bucket
\* exactly when they agree on the low local-depth bits; every key in the bucket
\* at slot i has hash bits equal to i on the low local-depth bits; no bucket holds
\* more than bucket_size entries or two entries with the same key.
C23_DirectoryInvariants ==
    hcall.returned =>
        /\ DOMAIN table.dir = 0 .. ((2 ^ table.global_depth) - 1)
        /\ \A i \in DOMAIN table.dir :
              LET bucket == table.buckets[table.dir[i]]
              IN  /\ bucket.depth <= table.global_depth
                  /\ \A j \in DOMAIN table.dir :
                        (table.dir[j] = table.dir[i])
                           <=> (GetSufix(j, bucket.depth) = GetSufix(i, bucket.depth))
                  /\ \A key \in BucketKeys(bucket.list) :
                        GetSufix(Hash(key), bucket.depth) = GetSufix(i, bucket.depth)
                  /\ Len(bucket.list) <= table.bucket_size
                  /\ Cardinality(BucketKeys(bucket.list)) = Len(bucket.list)

\* an Insert returned after splitting a bucket whose local depth was below the
\* global depth, and its bucket now holds bucket_size entries
C23_Witness ==
    /\ hcall.op = "Insert" /\ hcall.returned /\ hcall.splits = 1
    /\ table.global_depth = 2
    /\ LET bucket == table.buckets[table.dir[IndexOf(table, hcall.key)]]
       IN  /\ bucket.depth = 2
           /\ Len(bucket.list) = table.bucket_size
    /\ Cardinality({table.dir[i] : i \in DOMAIN table.dir}) = 4

\* ------------------------------------------------ bucket count
GetNumBuckets(t) == t.num_buckets

DistinctBuckets(t) == {t.dir[i] : i \in DOMAIN t.dir}

\* C24: GetNumBuckets() equals the number of distinct buckets the directory
\* refers to: it is 1 at construction, grows by one per split, is left alone by
\* a doubling on its own, and is never changed by Find or Remove.
C24_NumBuckets ==
    [][/\ GetNumBuckets(table) = Cardinality(DistinctBuckets(table))
       /\ GetNumBuckets(table') = Cardinality(DistinctBuckets(table'))
       /\ hcall.op = "none" => GetNumBuckets(table) = 1
       /\ GetNumBuckets(IncreaseGlobalDepth(table)) = GetNumBuckets(table)
       /\ hcall'.op = "Insert"
             => GetNumBuckets(table') = GetNumBuckets(table) + hcall'.splits
       /\ hcall'.op \in {"Find", "Remove"}
             => GetNumBuckets(table') = GetNumBuckets(table)]_vars

\* one Insert doubled the directory twice and split twice: four slots, three buckets
C24_Witness ==
    /\ hcall.op = "Insert" /\ hcall.returned /\ hcall.splits = 2
    /\ table.global_depth = 2
    /\ GetNumBuckets(table) = 3
    /\ Cardinality(DOMAIN table.dir) = 4

\* ------------------------------------------------ bucket latches of one Insert
\* C25: no Insert call, at any point of its execution including the split path,
\* holds the latches of two different buckets at the same time.
C25_OneBucketLatch ==
    \A th \in DOMAIN threads :
        threads[th].op = "Insert" => Cardinality(HeldBuckets(latch, th)) <= 1

\* =====================================================================
\* src/unnamed/part_001: the table whose calls never hold latch_ across a step.
\* IndexOf, GetGlobalDepth and GetNumBuckets take latch_ for the read alone;
\* Find and Remove bind a reference to the slot dir_[index], Insert copies it.
\* Odd threads call Find and Remove, even threads call Insert; with NumThreads = 2
\* there is one inserting thread, so a split never runs beside another split.

\* ReserveBucket: as before, and num_buckets_ becomes the number of slots
ReserveBucket_part001(t) ==
    LET ori_size == 2 ^ t.global_depth
    IN  [t EXCEPT !.global_depth = @ + 1,
                  !.num_buckets = 2 * ori_size,
                  !.dir = [i \in 0 .. (2 * ori_size - 1) |->
                              IF i < ori_size THEN t.dir[i] ELSE t.dir[i - ori_size]]]

IncreaseGlobalDepth_part001(t) == ReserveBucket_part001(t)

InsertNoLock_part001(t, key, value) ==
    BucketInsert(t, t.dir[IndexOf(t, key)], key, value)

RECURSIVE RedistributeItems_part001(_, _)
RedistributeItems_part001(t, list) ==
    IF list = <<>> THEN t
    ELSE RedistributeItems_part001(
             InsertNoLock_part001(t, Head(list).key, Head(list).value), Tail(list))

RedistributeBucket_part001(t, b) ==
    RedistributeItems_part001([t EXCEPT !.buckets[b].list = <<>>], t.buckets[b].list)

\* IncreaseLocalDepth(dir_index, depth): the loop runs over GetNumBuckets() slots
IncreaseLocalDepth_part001(t, dir_index, depth) ==
    LET bucket == Len(t.buckets) + 1
        new_depth == depth + 1
        new_index == dir_index + (2 ^ depth)
        old_bucket == t.dir[dir_index]
        size == t.num_buckets
        slots == {i \in DOMAIN t.dir : i < size /\ GetSufix(i, new_depth) = new_index}
        t1 == [t EXCEPT !.buckets = Append(@, NewBucket(depth + 1)),
                        !.buckets[old_bucket].depth = @ + 1,
                        !.dir = [i \in DOMAIN @ |-> IF i \in slots THEN bucket ELSE @[i]]]
    IN  RedistributeBucket_part001(t1, old_bucket)

InitHT_part001 ==
    /\ BpmIdle
    /\ \E bucket_size \in 1 .. MaxBucketSize : table = NewTable(bucket_size)
    /\ kv = <<>>
    /\ hcall = NoHCall
    /\ threads = [th \in Threads |-> IdleThread]
    /\ latch = NewLatches

Calls_part001(th) == IF th % 2 = 1 THEN {"Find", "Remove"} ELSE {"Insert"}

\* the other calls on key lose had when the map is written at key
Touch(ts, th, key) ==
    [o \in DOMAIN ts |->
        IF o # th /\ ts[o].pc # "idle" /\ ts[o].key = key
        THEN [ts[o] EXCEPT !.had = FALSE] ELSE ts[o]]

\* bucket b is inside another thread's critical section
Racing(th, b) ==
    /\ latch.bucket[b] \notin {0, th}
    /\ threads[latch.bucket[b]].pc # "idle"

\* a thread enters Insert, Find or Remove
Call_part001(th, op, key) ==
    /\ threads[th].pc = "idle"
    /\ threads[th].calls < MaxCalls
    /\ op \in Calls_part001(th)
    /\ threads' = [threads EXCEPT ![th] =
                       [IdleThread EXCEPT !.pc = "index_of", !.op = op, !.key = key,
                                          !.value = ThreadValue(th),
                                          !.calls = threads[th].calls,
                                          !.had = key \in DOMAIN kv]]
    /\ UNCHANGED <<table, kv, latch, hcall>>
    /\ PoolUnchanged

\* index = IndexOf(key), a scoped_lock on latch_ around the mask
IndexOf_part001(th) ==
    /\ threads[th].pc = "index_of"
    /\ latch.dir = 0
    /\ threads' = [threads EXCEPT ![th].pc = "read_slot",
                                  ![th].index = IndexOf(table, threads[th].key)]
    /\ UNCHANGED <<table, kv, latch, hcall>>
    /\ PoolUnchanged

\* dir_[index] is read with no latch held: Insert copies the pointer, Find and
\* Remove read it to reach the bucket's latch_
ReadSlot_part001(th) ==
    /\ threads[th].pc = "read_slot"
    /\ threads' = [threads EXCEPT ![th].pc = "lock_slot",
                                  ![th].bucket = table.dir[threads[th].index]]
    /\ UNCHANGED <<table, kv, latch, hcall>>
    /\ PoolUnchanged

\* latch_.lock() of the bucket that was read
LockSlot_part001(th) ==
    /\ threads[th].pc = "lock_slot"
    /\ latch.bucket[threads[th].bucket] = 0
    /\ latch' = [latch EXCEPT !.bucket[threads[th].bucket] = th]
    /\ threads' = [threads EXCEPT ![th].pc = "recheck"]
    /\ UNCHANGED <<table, kv, hcall>>
    /\ PoolUnchanged

\* Find / Remove from the re-check on.  bucket is a reference to dir_[index], so
\* dir_[index] == bucket compares the slot with itself and the call goes on with
\* whatever bucket the slot holds now; bucket->latch_.unlock() is then applied to
\* that bucket.  Unlocking a mutex the thread does not own is undefined: the
\* mutex is released or left as it is.  A scan of a list inside another thread's
\* critical section may miss the key.
ReadBucket_part001(th) ==
    /\ threads[th].pc = "recheck"
    /\ threads[th].op \in {"Find", "Remove"}
    /\ LET me == threads[th]
           b == table.dir[me.index]
           list == table.buckets[b].list
           exact == BucketFind(list, me.key)
           miss == [ok |-> FALSE, value |-> 0]
       IN  /\ \E r \in IF Racing(th, b) THEN {exact, miss} ELSE {exact} :
                 /\ hcall' = [NoHCall EXCEPT !.op = me.op, !.key = me.key, !.ok = r.ok,
                                             !.out = IF me.op = "Find" THEN r.value ELSE 0]
                 /\ IF me.op = "Remove" /\ r.ok
                    THEN /\ table' = [table EXCEPT !.buckets[b].list =
                                          BucketRemove(@, me.key).list]
                         /\ kv' = RemoveKey(kv, me.key)
                         /\ threads' = [Touch(threads, th, me.key) EXCEPT ![th] =
                                            [IdleThread EXCEPT !.calls = me.calls + 1]]
                    ELSE /\ UNCHANGED <<table, kv>>
                         /\ threads' = [threads EXCEPT ![th] =
                                            [IdleThread EXCEPT !.calls = me.calls + 1]]
           /\ \E released \in IF latch.bucket[b] = th THEN {TRUE} ELSE BOOLEAN :
                 latch' = IF released THEN [latch EXCEPT !.bucket[b] = 0] ELSE latch
    /\ PoolUnchanged

\* Insert from the re-check on: buck is a copy, so the slot is compared with the
\* bucket that was latched; buck->Insert, and on refusal the way to the split
InsertBucket_part001(th) ==
    /\ threads[th].pc = "recheck"
    /\ threads[th].op = "Insert"
    /\ LET me == threads[th]
           buck == me.bucket
       IN  IF table.dir[me.index] # buck
           THEN /\ latch' = [latch EXCEPT !.bucket[buck] = 0]
                /\ threads' = [threads EXCEPT ![th].pc = "index_of", ![th].bucket = 0]
                /\ UNCHANGED <<table, kv>>
           ELSE IF IsFull(table, buck)
           THEN /\ threads' = [threads EXCEPT ![th].pc =
                                   IF table.buckets[buck].depth = table.global_depth
                                   THEN "double" ELSE "local_split"]
                /\ UNCHANGED <<table, kv, latch>>
           ELSE /\ table' = BucketInsert(table, buck, me.key, me.value)
                /\ kv' = Put(kv, me.key, me.value)
                /\ latch' = [latch EXCEPT !.bucket[buck] = 0]
                /\ threads' = [Touch(threads, th, me.key) EXCEPT ![th] =
                                   [IdleThread EXCEPT !.calls = me.calls + 1]]
    /\ UNCHANGED hcall
    /\ PoolUnchanged

\* local_depth == global_depth: IncreaseGlobalDepth(global_depth)
Double_part001(th) ==
    /\ threads[th].pc = "double"
    /\ threads[th].splits < MaxSplits
    /\ latch.dir = 0
    /\ table' = IncreaseGlobalDepth_part001(table)
    /\ threads' = [threads EXCEPT ![th].pc = "local_split"]
    /\ UNCHANGED <<kv, latch, hcall>>
    /\ PoolUnchanged

\* IncreaseLocalDepth(small_index, local_depth) with the new bucket's latch held
\* inside it, buck->latch_.unlock(), and Insert(key, value) again
LocalSplit_part001(th) ==
    /\ threads[th].pc = "local_split"
    /\ threads[th].splits < MaxSplits
    /\ LET me == threads[th]
           local_depth == table.buckets[me.bucket].depth
           small_index == GetSufix(me.index, local_depth)
       IN  table' = IncreaseLocalDepth_part001(table, small_index, local_depth)
    /\ latch' = [latch EXCEPT !.bucket =
                    Append([@ EXCEPT ![threads[th].bucket] = 0], 0)]
    /\ threads' = [threads EXCEPT ![th].pc = "index_of", ![th].bucket = 0,
                                  ![th].splits = @ + 1]
    /\ UNCHANGED <<kv, hcall>>
    /\ PoolUnchanged

\* an Insert that found its bucket full after MaxSplits splits is not followed
\* further
Runaway_part001(th) ==
    /\ threads[th].pc \in {"double", "local_split"}
    /\ threads[th].splits = MaxSplits
    /\ latch' = [latch EXCEPT !.bucket[threads[th].bucket] = 0]
    /\ threads' = [threads EXCEPT ![th].pc = "runaway", ![th].bucket = 0]
    /\ UNCHANGED <<table, kv, hcall>>
    /\ PoolUnchanged

NextPart001 ==
    \/ \E th \in Threads, key \in HtKeys : Call_part001(th, "Insert", key)
    \/ \E th \in Threads, key \in HtKeys : Call_part001(th, "Find", key)
    \/ \E th \in Threads, key \in HtKeys : Call_part001(th, "Remove", key)
    \/ \E th \in Threads : IndexOf_part001(th)
    \/ \E th \in Threads : ReadSlot_part001(th)
    \/ \E th \in Threads : LockSlot_part001(th)
    \/ \E th \in Threads : ReadBucket_part001(th)
    \/ \E th \in Threads : InsertBucket_part001(th)
    \/ \E th \in Threads : Double_part001(th)
    \/ \E th \in Threads : LocalSplit_part001(th)
    \/ \E th \in Threads : Runaway_part001(th)

SpecHT_part001 == InitHT_part001 /\ [][NextPart001]_vars

\* C26: in the variant whose Find and Remove read the slot without the directory
\* latch and re-check it after latching the bucket, a Find(k) or Remove(k) that
\* runs beside Inserts of other keys works on the bucket that owns k when it
\* reaches the bucket, so a key inserted before the call and not written since
\* is found (Find gives its value, Remove returns true).
C26_FindsOwnedKey ==
    [][\A th \in DOMAIN threads :
          (/\ threads[th].pc = "recheck"
           /\ threads[th].op \in {"Find", "Remove"}
           /\ threads'[th].pc = "idle"
           /\ threads[th].had)
             => /\ table.dir[threads[th].index] = table.dir[IndexOf(table, threads[th].key)]
                /\ hcall'.ok
                /\ hcall'.op = "Find" => hcall'.out = kv[threads[th].key]]_vars

\* ------------------------------------------------ the pool as the replacer's caller
\* C27: no sequence of public calls makes the pool break a precondition of the
\* replacer: Remove is never called on a frame the replacer knows as
\* non-evictable, RecordAccess is never called with a frame id outside
\* [0, pool_size), and for every resident page pin_count = 0 holds exactly when
\* the replacer flags its frame evictable.
C27_ReplacerPreconditions ==
    [][/\ last'.how # "assert"
       /\ DOMAIN replacer'.lru_access_map \subseteq Frames
       /\ (last'.op \in {"NewPage", "FetchPage"} /\ last'.ok)
             => /\ last'.frame \in Frames
                /\ Known(replacer', last'.frame)
       /\ \A f \in Frames :
             /\ pages[f].page_id # INVALID_PAGE_ID
                   => (pages[f].pin_count = 0 <=> Evitable(replacer, f))
             /\ pages'[f].page_id # INVALID_PAGE_ID
                   => (pages'[f].pin_count = 0 <=> Evitable(replacer', f))]_vars

\* DeletePage has had the replacer remove an unpinned frame's node while another
\* page stays pinned and not evictable
C27_Witness ==
    /\ last.op = "DeletePage" /\ last.ok /\ ~crashed
    /\ last.frame # NullFrame
    /\ ~Known(replacer, last.frame)
    /\ \E g \in Frames :
          /\ pages[g].page_id # INVALID_PAGE_ID
          /\ pages[g].pin_count = 2
          /\ Known(replacer, g) /\ ~Evitable(replacer, g)

\* ------------------------------------------------ eviction forgets
\* C28: Evict forgets the victim's access history: after Evict returns frame f,
\* f is unknown to the replacer (SetEvictable(f, true) does not change Size), and
\* the next RecordAccess(f) starts a fresh history with one access, so for K > 1
\* the frame is ranked again among the frames with fewer than K accesses.
C28_EvictForgets ==
    [][/\ (last'.op = "Evict" /\ last'.ok)
             => LET f == last'.frame
                    fresh == RecordAccessRes(replacer', f)
                    ranked == SetEvictableRes(fresh, f, TRUE)
                IN  /\ Evitable(replacer, f)
                    /\ ~Known(replacer', f)
                    /\ f \notin Linked(replacer'.k_evi_list)
                                   \cup Linked(replacer'.kless_evi_list)
                    /\ SetEvictableRes(replacer', f, TRUE) = replacer'
                    /\ AccessCount(fresh.lru_access_map[f]) = 1
                    /\ AccessTime(fresh.lru_access_map[f]) = replacer'.current_timestamp
                    /\ replacer'.k > 1
                          => /\ f \in Linked(ranked.kless_evi_list)
                             /\ f \notin Linked(ranked.k_evi_list)
       /\ (last.op = "Evict" /\ last.ok /\ last'.frame = last.frame /\ last'.ok)
             => /\ last'.op = "SetEvictable" => Size(replacer') = Size(replacer)
                /\ last'.op = "RecordAccess"
                      => /\ replacer'.lru_access_map[last.frame].all
                               = <<replacer.current_timestamp>>
                         /\ AccessCount(replacer'.lru_access_map[last.frame]) = 1]_vars

\* with K = 2, Evict has just returned a frame the replacer no longer knows,
\* while another frame with K accesses stays ranked in the k list
C28_Witness ==
    /\ last.op = "Evict" /\ last.ok
    /\ replacer.k = 2
    /\ ~Known(replacer, last.frame)
    /\ \E g \in Linked(replacer.k_evi_list) :
          g # last.frame /\ Len(replacer.lru_access_map[g].all) = 2

=============================================================================
